---- MODULE Spec2Model ----
(***************************************************************************)
(* GaussianModel (skrl/models/torch/gaussian.py): the Gaussian policy      *)
(* layer as a state machine.  One instance is constructed, then a single   *)
(* sequential caller drives act / get_entropy / get_log_std /             *)
(* distribution on it.                                                     *)
(*                                                                         *)
(* Tensors are records [type, shape, data, requires_grad]; data is the     *)
(* row-major sequence of the elements.  Numbers are integers.  exp, the    *)
(* normal log-density, the entropy and the reductions are kept as terms    *)
(* over their arguments (records), so two results are equal only when they *)
(* apply the same function to the same arguments.                          *)
(***************************************************************************)
EXTENDS Integers, Sequences, FiniteSets, TLC

VARIABLES
    ctor,                    \* arguments of the constructor call (history)
    constructed,             \* "pending", "ok", or the error __init__ raised
    action_space,            \* self.action_space (set by Model.__init__)
    clip_actions,            \* self.clip_actions
    clip_actions_min,        \* self.clip_actions_min
    clip_actions_max,        \* self.clip_actions_max
    _backward_compatibility, \* self._backward_compatibility
    clip_log_std,            \* self.clip_log_std
    log_std_min,             \* self.log_std_min
    log_std_max,             \* self.log_std_max
    _reduction,              \* self._reduction
    _log_std,                \* self._log_std
    _num_samples,            \* self._num_samples
    _distribution,           \* self._distribution
    op,                      \* the name of the last operation called (history)
    last_act,                \* the last act invocation: inputs and outcome (history)
    ret,                     \* what the last operation returned or raised
    age                      \* per transient field, the act invocation that wrote it
                             \* (history): 0 none, 1 the latest invocation that wrote
                             \* transient state, 2 an earlier one

vars == <<ctor, constructed, action_space, clip_actions, clip_actions_min,
          clip_actions_max, _backward_compatibility, clip_log_std, log_std_min,
          log_std_max, _reduction, _log_std, _num_samples, _distribution,
          op, last_act, ret, age>>

config == <<ctor, constructed, action_space, clip_actions, clip_actions_min,
            clip_actions_max, _backward_compatibility, clip_log_std, log_std_min,
            log_std_max, _reduction>>

transient == <<_log_std, _num_samples, _distribution>>

(***************************************************************************)
(* Bounds of the model.                                                    *)
(***************************************************************************)
MaxBatch == 2     \* batch sizes N are 1..MaxBatch
MaxDim == 2       \* action dimensions D are 1..MaxDim

(***************************************************************************)
(* Python values.                                                          *)
(***************************************************************************)
None == [type |-> "NoneType"]
PyInt(n) == [type |-> "int", value |-> n]
PyFloat(v) == [type |-> "float", value |-> v]
PyBool(b) == [type |-> "bool", value |-> b]
Raised(e) == [type |-> "raised", error |-> e]
Unset == [type |-> "unset"]   \* an attribute __init__ never assigned

Tensor(shape, data, rg) ==
    [type |-> "Tensor", shape |-> shape, data |-> data, requires_grad |-> rg]

Scalar(v) == Tensor(<<>>, <<v>>, FALSE)

Max2(a, b) == IF a >= b THEN a ELSE b
Min2(a, b) == IF a <= b THEN a ELSE b

RECURSIVE Numel(_)
Numel(shape) == IF shape = <<>> THEN 1 ELSE Head(shape) * Numel(Tail(shape))

\* rows and columns of a tensor of rank <= 2, seen as a matrix
Rows(shape) == IF Len(shape) = 2 THEN shape[1] ELSE 1
Cols(shape) == IF Len(shape) = 0 THEN 1 ELSE shape[Len(shape)]

\* the size of dimension k of `shape` once it is right-aligned to rank r
DimR(shape, k, r) ==
    LET off == r - Len(shape) IN IF k > off THEN shape[k - off] ELSE 1

Broadcastable(s1, s2) ==
    LET r == Max2(Len(s1), Len(s2))
    IN  \A k \in 1..r :
            \/ DimR(s1, k, r) = DimR(s2, k, r)
            \/ DimR(s1, k, r) = 1
            \/ DimR(s2, k, r) = 1

BroadcastShape(s1, s2) ==
    LET r == Max2(Len(s1), Len(s2))
    IN  [k \in 1..r |-> Max2(DimR(s1, k, r), DimR(s2, k, r))]

\* element (i, j) of t when t is broadcast to a matrix that has that element
At(t, i, j) ==
    LET ii == IF Rows(t.shape) = 1 THEN 1 ELSE i
        jj == IF Cols(t.shape) = 1 THEN 1 ELSE j
    IN  t.data[(ii - 1) * Cols(t.shape) + jj]

RowOf(shape, k) == ((k - 1) \div Cols(shape)) + 1
ColOf(shape, k) == ((k - 1) % Cols(shape)) + 1

\* t.expand(shape)
Expand(t, shape) ==
    Tensor(shape,
           [k \in 1..Numel(shape) |-> At(t, RowOf(shape, k), ColOf(shape, k))],
           t.requires_grad)

\* an element-wise binary operation, with broadcasting
Map2(F(_, _), a, b) ==
    LET shape == BroadcastShape(a.shape, b.shape)
    IN  Tensor(shape,
               [k \in 1..Numel(shape) |->
                    F(At(a, RowOf(shape, k), ColOf(shape, k)),
                      At(b, RowOf(shape, k), ColOf(shape, k)))],
               a.requires_grad \/ b.requires_grad)

Map1(F(_), a) ==
    Tensor(a.shape, [k \in 1..Numel(a.shape) |-> F(a.data[k])], a.requires_grad)

torch_max(a, b) == Map2(Max2, a, b)
torch_min(a, b) == Map2(Min2, a, b)

\* torch.clamp(input, min, max) computes min(max(input, min), max)
torch_clamp(input, min, max) == torch_min(torch_max(input, min), max)

ExpOf(v) == [f |-> "exp", x |-> v]
torch_exp(t) == Map1(ExpOf, t)

\* t.dim()
dim(t) == Len(t.shape)

\* t.unsqueeze(-1)
unsqueeze(t) == [t EXCEPT !.shape = Append(t.shape, 1)]

\* t.detach()
detach(t) == [t EXCEPT !.requires_grad = FALSE]

\* t.repeat(r1, r2) for t of rank <= 2
repeat(t, r1, r2) ==
    LET rows == Rows(t.shape)
        cols == Cols(t.shape)
        shape == <<rows * r1, cols * r2>>
    IN  Tensor(shape,
               [k \in 1..Numel(shape) |->
                    t.data[((RowOf(shape, k) - 1) % rows) * cols
                           + ((ColOf(shape, k) - 1) % cols) + 1]],
               t.requires_grad)

\* torch.mean / torch.sum / torch.prod (t, dim=-1) for t of rank >= 1
Reduce(fn, t) ==
    LET shape == SubSeq(t.shape, 1, Len(t.shape) - 1)
        cols == t.shape[Len(t.shape)]
    IN  Tensor(shape,
               [k \in 1..Numel(shape) |->
                    [f |-> fn,
                     over |-> [j \in 1..cols |-> t.data[(k - 1) * cols + j]]]],
               t.requires_grad)

(***************************************************************************)
(* torch.distributions.Normal                                              *)
(***************************************************************************)
\* Normal(loc, scale) broadcasts its two parameters (broadcast_all) and
\* raises when their shapes cannot be broadcast
Normal_raises(loc, scale) == ~Broadcastable(loc.shape, scale.shape)

Normal(loc, scale) ==
    LET batch_shape == BroadcastShape(loc.shape, scale.shape)
    IN  [type |-> "Normal",
         loc |-> Expand(loc, batch_shape),
         scale |-> Expand(scale, batch_shape)]

Deviation(x, loc) == x - loc
LogPdfOf(dev, scale) == [f |-> "normal_log_pdf", sq_dev |-> dev * dev, scale |-> scale]

\* d.log_prob(value): -((value - loc)^2) / (2 scale^2) - log(scale) - log(sqrt(2 pi))
Normal_log_prob(d, value) == Map2(LogPdfOf, Map2(Deviation, value, d.loc), d.scale)

EntropyOf(scale) == [f |-> "normal_entropy", scale |-> scale]

\* d.entropy(): 0.5 + 0.5 log(2 pi) + log(scale)
Normal_entropy(d) == Map1(EntropyOf, d.scale)

(***************************************************************************)
(* Inputs: the constructor's arguments, the caller's arguments of act, the *)
(* outputs of the mean/log-std provider and the samples rsample draws.     *)
(***************************************************************************)
\* a tensor whose elements in row-major order are a, b, a, b, ...
Pattern(shape, a, b, rg) ==
    Tensor(shape, [k \in 1..Numel(shape) |-> IF k % 2 = 1 THEN a ELSE b], rg)

\* gym.spaces.Box with low[d] = lo * d and high[d] = hi * d
Box(D, lo, hi) ==
    [kind |-> "Box", low |-> [d \in 1..D |-> lo * d], high |-> [d \in 1..D |-> hi * d]]

\* lo, hi of the Box spaces; the second has low > high, which Box accepts
BoxBounds == {<<-1, 1>>, <<1, -1>>}

ActionSpaces ==
    {[kind |-> "int", n |-> D] : D \in 1..MaxDim}
    \cup {Box(MaxDim, b[1], b[2]) : b \in BoxBounds}
    \cup {[kind |-> "Discrete", n |-> MaxDim]}

\* (clip_log_std, min_log_std, max_log_std); the constructor accepts the
\* two numbers in either order
LogStdConfigs == {<<TRUE, -1, 1>>, <<TRUE, 1, -1>>, <<FALSE, -1, 1>>}

Reductions == {"mean", "sum", "prod", "none", "invalid"}

Ctor(space, clip, cfg, reduction, old_torch) ==
    [action_space |-> space, clip_actions |-> clip, log_std_config |-> cfg,
     reduction |-> reduction, torch_lt_1_9 |-> old_torch]

\* the constructor calls.  The installed torch is read only when the actions
\* are clipped to a Box, so both versions are tried there alone.
\* every action space, with and without clip_actions
SpaceCtorArgs ==
    {Ctor(sp, c, <<TRUE, -1, 1>>, "sum", o) :
        sp \in ActionSpaces, c \in BOOLEAN, o \in BOOLEAN}

\* every reduction, for each kind of action space
ReductionCtorArgs ==
    {Ctor([kind |-> "int", n |-> D], FALSE, <<TRUE, -1, 1>>, r, FALSE) :
        D \in 1..MaxDim, r \in Reductions}
    \cup {Ctor(sp, TRUE, <<TRUE, -1, 1>>, r, FALSE) :
        sp \in {Box(MaxDim, -1, 1), [kind |-> "Discrete", n |-> MaxDim]},
        r \in Reductions}

\* every log-std configuration
LogStdCtorArgs ==
    {Ctor([kind |-> "int", n |-> MaxDim], FALSE, cfg, "sum", FALSE) :
        cfg \in LogStdConfigs}

CtorArgs ==
    {a \in SpaceCtorArgs \cup ReductionCtorArgs \cup LogStdCtorArgs :
        a.torch_lt_1_9 => (a.clip_actions /\ a.action_space.kind = "Box")}

\* issubclass(type(self.action_space), gym.Space)
is_gym_Space(space) == space.kind \in {"Box", "Discrete"}

\* whether space.low and space.high exist
has_bounds(space) == space.kind = "Box"

\* Model.num_actions: the size of the action space
num_actions(space) == IF space.kind = "Box" THEN Len(space.low) ELSE space.n

\* the log_std a provider returns with a mean of shape [N, D], as (shape,
\* first element, second element): of the batch shape with values far outside
\* every log-std range; of the batch shape with values inside; one value per
\* action, as in the class's example
LogStdOutputs(N, D) ==
    {<<<<N, D>>, -9, 9>>, <<<<N, D>>, 0, 0>>, <<<<D>>, 9, -9>>}

Output(N, D, l) ==
    [mean |-> Pattern(<<N, D>>, 0, 1, TRUE),
     log_std |-> Pattern(l[1], l[2], l[3], TRUE)]

ProviderOutputs(N, D) == {Output(N, D, l) : l \in LogStdOutputs(N, D)}

\* a log_std of D + 1 values: for D > 1 it cannot be broadcast with the mean
MisshapedOutput(N, D) == Output(N, D, <<<<D + 1>>, -9, 9>>)

TakenActions(N, D) == {None, Pattern(<<N, D>>, 7, 8, FALSE)}

\* the act calls on a model with D actions, each with what the provider does
\* in it: returns, returns a misshaped log_std, raises
ActCallsOf(N, D) ==
    {[N |-> N, taken_actions |-> t, inference |-> i, out |-> o] :
        t \in TakenActions(N, D), i \in BOOLEAN, o \in ProviderOutputs(N, D)}
    \cup {[N |-> N, taken_actions |-> None, inference |-> FALSE,
           out |-> MisshapedOutput(N, D)]}

ActCalls(D) ==
    UNION {ActCallsOf(N, D) : N \in 1..MaxBatch}
    \cup {[N |-> 1, taken_actions |-> None, inference |-> FALSE,
           out |-> Raised("compute")]}

\* a tensor whose elements in row-major order are a, b, c, a, b, c, ...
Pattern3(shape, a, b, c, rg) ==
    Tensor(shape,
           [k \in 1..Numel(shape) |->
                IF k % 3 = 1 THEN a ELSE IF k % 3 = 2 THEN b ELSE c],
           rg)

\* d.rsample(): loc + eps * scale with eps standard normal.  Any value can be
\* drawn; the sample drawn here has elements below every Box, above every Box
\* and inside
rsample(d) == {Pattern3(d.loc.shape, -5, 5, 0, TRUE)}

(***************************************************************************)
(* GaussianModel.__init__                                                  *)
(***************************************************************************)
reduction_fn(reduction) ==
    IF reduction = "mean" THEN [type |-> "function", name |-> "torch.mean"]
    ELSE IF reduction = "sum" THEN [type |-> "function", name |-> "torch.sum"]
    ELSE IF reduction = "prod" THEN [type |-> "function", name |-> "torch.prod"]
    ELSE None

resolved_clip_actions(requested, space) == requested /\ is_gym_Space(space)

Init ==
    /\ ctor = Unset
    /\ constructed = "pending"
    /\ action_space = Unset
    /\ clip_actions = Unset
    /\ clip_actions_min = Unset
    /\ clip_actions_max = Unset
    /\ _backward_compatibility = Unset
    /\ clip_log_std = Unset
    /\ log_std_min = Unset
    /\ log_std_max = Unset
    /\ _reduction = Unset
    /\ _log_std = Unset
    /\ _num_samples = Unset
    /\ _distribution = Unset
    /\ op = "none"
    /\ last_act = None
    /\ ret = None
    /\ age = [log_std |-> 0, num_samples |-> 0, distribution |-> 0]

__init__(a) ==
    LET clip == resolved_clip_actions(a.clip_actions, a.action_space)
        low_raises == clip /\ ~has_bounds(a.action_space)
        reduction_raises == a.reduction \notin {"mean", "sum", "prod", "none"}
    IN  /\ constructed = "pending"
        /\ ctor' = a
        /\ op' = "__init__"
        /\ action_space' = a.action_space
        /\ clip_actions' = PyBool(clip)
        /\ UNCHANGED <<last_act, age>>
        /\ IF low_raises
           THEN /\ constructed' = "AttributeError"
                /\ ret' = Raised("AttributeError")
                /\ UNCHANGED <<clip_actions_min, clip_actions_max,
                               _backward_compatibility, clip_log_std, log_std_min,
                               log_std_max, _reduction, _log_std, _num_samples,
                               _distribution>>
           ELSE /\ IF clip
                   THEN /\ clip_actions_min' =
                              Tensor(<<Len(a.action_space.low)>>, a.action_space.low, FALSE)
                        /\ clip_actions_max' =
                              Tensor(<<Len(a.action_space.high)>>, a.action_space.high, FALSE)
                        /\ _backward_compatibility' = PyBool(a.torch_lt_1_9)
                   ELSE UNCHANGED <<clip_actions_min, clip_actions_max,
                                    _backward_compatibility>>
                /\ clip_log_std' = PyBool(a.log_std_config[1])
                /\ log_std_min' = PyFloat(a.log_std_config[2])
                /\ log_std_max' = PyFloat(a.log_std_config[3])
                /\ _log_std' = None
                /\ _num_samples' = None
                /\ _distribution' = None
                /\ IF reduction_raises
                   THEN /\ constructed' = "ValueError"
                        /\ ret' = Raised("ValueError")
                        /\ UNCHANGED _reduction
                   ELSE /\ constructed' = "ok"
                        /\ ret' = None
                        /\ _reduction' = reduction_fn(a.reduction)

(***************************************************************************)
(* GaussianModel.act                                                       *)
(***************************************************************************)
\* clamp log standard deviations
clamp_log_std(log_std) ==
    IF clip_log_std.value
    THEN torch_clamp(log_std, Scalar(log_std_min.value), Scalar(log_std_max.value))
    ELSE log_std

\* the batch size read off log_std instead of the mean
num_samples_from_log_std(actions_mean, log_std) == PyInt(log_std.shape[1])

\* self._num_samples = actions_mean.shape[0]
num_samples_of(actions_mean, log_std) == PyInt(actions_mean.shape[1])

\* the clamp of the sample left out
clip_skipped(actions) == actions

\* clip actions
clip(actions) ==
    IF clip_actions.value
    THEN IF _backward_compatibility.value
         THEN torch_max(torch_min(actions, clip_actions_max), clip_actions_min)
         ELSE torch_clamp(actions, clip_actions_min, clip_actions_max)
    ELSE actions

\* log_prob always evaluated at the sampled action
evaluated_sample(actions, taken_actions) == actions

\* the argument of log_prob
evaluated(actions, taken_actions) ==
    IF taken_actions = None THEN actions ELSE taken_actions

\* the reduction without the trailing dimension put back
reduce_without_unsqueeze(log_prob, actions) ==
    IF _reduction # None THEN Reduce(_reduction.name, log_prob) ELSE log_prob

\* the reduction over the last dimension and the trailing dimension put back
reduce_log_prob(log_prob, actions) ==
    LET reduced == IF _reduction # None THEN Reduce(_reduction.name, log_prob)
                   ELSE log_prob
    IN  IF dim(reduced) # dim(actions) THEN unsqueeze(reduced) ELSE reduced

\* the returned triple
returned(actions, log_prob, actions_mean, inference) ==
    IF inference
    THEN [type |-> "tuple", actions |-> detach(actions),
          log_prob |-> detach(log_prob), actions_mean |-> detach(actions_mean)]
    ELSE [type |-> "tuple", actions |-> actions,
          log_prob |-> log_prob, actions_mean |-> actions_mean]

Invocation(N, taken_actions, inference, out, sample, outcome) ==
    [N |-> N, taken_actions |-> taken_actions, inference |-> inference,
     out |-> out, sample |-> sample, outcome |-> outcome]

act(N, taken_actions, inference, out) ==
    /\ constructed = "ok"
    /\ op' = "act"
    /\ UNCHANGED config
    /\ IF out = Raised("compute")
       THEN \* compute raised: nothing was assigned
            /\ last_act' = Invocation(N, taken_actions, inference, out, None,
                                      "compute raised")
            /\ ret' = out
            /\ UNCHANGED <<transient, age>>
       ELSE LET actions_mean == out.mean
                log_std == clamp_log_std(out.log_std)
            IN  /\ _log_std' = log_std
                /\ _num_samples' = num_samples_of(actions_mean, log_std)
                /\ IF Normal_raises(actions_mean, torch_exp(log_std))
                   THEN \* Normal raised: self._distribution keeps its value
                        /\ last_act' = Invocation(N, taken_actions, inference, out,
                                                  None, "Normal raised")
                        /\ ret' = Raised("Normal")
                        /\ UNCHANGED _distribution
                        /\ age' = [log_std |-> 1, num_samples |-> 1,
                                   distribution |->
                                       IF age.distribution = 0 THEN 0 ELSE 2]
                   ELSE LET d == Normal(actions_mean, torch_exp(log_std))
                        IN  /\ _distribution' = d
                            /\ age' = [log_std |-> 1, num_samples |-> 1,
                                       distribution |-> 1]
                            /\ \E sample \in rsample(d) :
                                 LET actions == clip(sample)
                                     log_prob ==
                                         reduce_log_prob(
                                             Normal_log_prob(
                                                 d, evaluated(actions, taken_actions)),
                                             actions)
                                 IN  /\ last_act' = Invocation(N, taken_actions,
                                                               inference, out, sample,
                                                               "returned")
                                     /\ ret' = returned(actions, log_prob,
                                                        actions_mean, inference)

(***************************************************************************)
(* The accessors                                                           *)
(***************************************************************************)
\* get_entropy without its default before the first act call
entropy_without_default(d) ==
    IF d = None THEN Raised("AttributeError") ELSE Normal_entropy(d)

\* the entropy of self._distribution, zero when there is none
entropy_of(d) == IF d = None THEN Scalar(0) ELSE Normal_entropy(d)

\* self._log_std.repeat(self._num_samples, 1); None has no attribute repeat
log_std_of(log_std, n) ==
    IF log_std = None THEN Raised("AttributeError") ELSE repeat(log_std, n.value, 1)

get_entropy ==
    /\ constructed = "ok"
    /\ op' = "get_entropy"
    /\ ret' = entropy_of(_distribution)
    /\ UNCHANGED <<config, transient, last_act, age>>

get_log_std ==
    /\ constructed = "ok"
    /\ op' = "get_log_std"
    /\ ret' = log_std_of(_log_std, _num_samples)
    /\ UNCHANGED <<config, transient, last_act, age>>

distribution ==
    /\ constructed = "ok"
    /\ op' = "distribution"
    /\ ret' = _distribution
    /\ UNCHANGED <<config, transient, last_act, age>>

Next ==
    \/ \E a \in CtorArgs : __init__(a)
    \/ /\ constructed = "ok"
       /\ \E c \in ActCalls(num_actions(action_space)) :
            act(c.N, c.taken_actions, c.inference, c.out)
    \/ get_entropy
    \/ get_log_std
    \/ distribution

Spec == Init /\ [][Next]_vars

(***************************************************************************)
(* Properties                                                              *)
(***************************************************************************)
Constructed == constructed = "ok"
Acted == last_act # None
Returns == Constructed /\ op = "act" /\ last_act.outcome = "returned"
LastActReturned == Constructed /\ Acted /\ last_act.outcome = "returned"
D == num_actions(action_space)
N == last_act.N
\* the provider's outputs have the shape [N, action_dim] of the compute contract
InContract ==
    /\ last_act.out.mean.shape = <<N, D>>
    /\ last_act.out.log_std.shape = <<N, D>>
ValidReductions == {"mean", "sum", "prod", "none"}
Elements(t) == {t.data[k] : k \in 1..Numel(t.shape)}
Cells(t) == (1..Rows(t.shape)) \X (1..Cols(t.shape))
BoundsOrdered ==
    \A d \in 1..Len(action_space.low) : action_space.low[d] <= action_space.high[d]

\* the Gaussian the last act call must have built
BuiltGaussian ==
    Normal(last_act.out.mean,
           torch_exp(IF clip_log_std.value
                     THEN torch_clamp(last_act.out.log_std,
                                      Scalar(log_std_min.value),
                                      Scalar(log_std_max.value))
                     ELSE last_act.out.log_std))

\* the log-probability the last act call must return when it evaluates at x
LogProbAt(x) ==
    LET per_action == Normal_log_prob(BuiltGaussian, x)
        reduced == IF ctor.reduction = "none" THEN per_action
                   ELSE unsqueeze(Reduce("torch." \o ctor.reduction, per_action))
    IN  IF last_act.inference THEN detach(reduced) ELSE reduced

\* C1: an act call whose provider outputs are shaped [N, action_dim] returns a
\* log_prob of shape [N, 1] under the reductions sum, mean and prod and of
\* shape [N, action_dim] under none, with or without taken_actions, with or
\* without action clipping, for both values of inference.
C1_LogProbShape ==
    (Returns /\ InContract) =>
        ret.log_prob.shape =
            IF ctor.reduction = "none" THEN <<N, D>> ELSE <<N, 1>>

C1_Witness ==
    /\ Returns /\ InContract
    /\ ctor.reduction = "mean" /\ clip_actions.value
    /\ last_act.taken_actions # None /\ last_act.inference
    /\ N > 1 /\ D > 1
    /\ ret.log_prob.shape = <<N, 1>>

\* C2: after an act call with batch size N whose provider log_std is shaped
\* [N, action_dim], get_log_std() returns a tensor of shape [N, action_dim]
\* whose rows are the rows of the clamped log-std that act call recorded.
C2_GetLogStdShape ==
    (LastActReturned /\ InContract /\ op = "get_log_std") =>
        /\ ret.type = "Tensor"
        /\ ret.shape = <<N, D>>
        /\ \A c \in Cells(ret) : At(ret, c[1], c[2]) = At(_log_std, c[1], c[2])

\* C3: with clip_log_std, every element of the log-std an act call records
\* and exponentiates into the scale of the distribution lies in
\* [log_std_min, log_std_max], whatever the provider returned.
C3_LogStdInRange ==
    (Constructed /\ clip_log_std.value /\ op = "act"
        /\ last_act.outcome \in {"returned", "Normal raised"}) =>
        /\ \A v \in Elements(_log_std) : log_std_min.value <= v /\ v <= log_std_max.value
        /\ last_act.outcome = "returned" =>
              \A s \in Elements(_distribution.scale) :
                  log_std_min.value <= s.x /\ s.x <= log_std_max.value

\* C4: with the resolved clip_actions and bounds low <= high, every element
\* of the action act returns lies within [low, high] of its action dimension,
\* also where the raw sample does not; the clamp changes the sample only
\* there, and the log-probability of the sample is evaluated after the clamp.
C4_ActionsWithinBounds ==
    (Returns /\ clip_actions.value /\ BoundsOrdered) =>
        /\ ret.actions.shape = last_act.sample.shape
        /\ \A c \in Cells(ret.actions) :
              LET a == At(ret.actions, c[1], c[2])
                  x == At(last_act.sample, c[1], c[2])
                  low == At(clip_actions_min, c[1], c[2])
                  high == At(clip_actions_max, c[1], c[2])
              IN  /\ low <= a /\ a <= high
                  /\ (low <= x /\ x <= high) => a = x
        /\ last_act.taken_actions = None => ret.log_prob = LogProbAt(ret.actions)

C4_Witness ==
    /\ Returns /\ clip_actions.value /\ BoundsOrdered
    /\ last_act.taken_actions = None
    /\ \E c \in Cells(ret.actions) :
          At(last_act.sample, c[1], c[2]) > At(clip_actions_max, c[1], c[2])
    /\ \E c \in Cells(ret.actions) :
          At(last_act.sample, c[1], c[2]) < At(clip_actions_min, c[1], c[2])

\* C5: the resolved clip_actions is true only if clipping was requested and
\* the action space carries low/high; when clipping is requested for an
\* action space without them, construction succeeds (given a valid
\* reduction) with the flag false, and act returns the sample unclamped.
C5_ClipResolution ==
    constructed # "pending" =>
        /\ (Constructed /\ clip_actions.value) =>
              (ctor.clip_actions /\ has_bounds(ctor.action_space))
        /\ (ctor.clip_actions /\ ~has_bounds(ctor.action_space)
                /\ ctor.reduction \in ValidReductions) =>
              /\ Constructed
              /\ clip_actions.value = FALSE
              /\ Returns => ret.actions.data = last_act.sample.data

\* C6: the log-probability act returns is that of taken_actions when they
\* are supplied and of the returned action otherwise, under the Gaussian
\* built in the same call; the returned action is the (possibly clamped)
\* sample either way.
C6_LogProbEvaluatedAt ==
    Returns =>
        /\ ret.log_prob =
              LogProbAt(IF last_act.taken_actions = None THEN ret.actions
                        ELSE last_act.taken_actions)
        /\ ret.actions.shape = last_act.sample.shape
        /\ \A c \in Cells(ret.actions) :
              LET a == At(ret.actions, c[1], c[2])
              IN  \/ a = At(last_act.sample, c[1], c[2])
                  \/ /\ clip_actions.value
                     /\ a \in {At(clip_actions_min, c[1], c[2]),
                               At(clip_actions_max, c[1], c[2])}

C6_Witness ==
    /\ Returns
    /\ last_act.taken_actions # None
    /\ ret.log_prob # LogProbAt(ret.actions)
    /\ clip_actions.value
    /\ ret.actions.data # last_act.sample.data

\* C7: in every constructed instance log_std_min <= log_std_max.
C7_LogStdRangeOrdered == Constructed => log_std_min.value <= log_std_max.value

\* C8: before the first act call get_entropy() returns the scalar zero,
\* distribution() returns None and get_log_std() raises, and the transient
\* state stays unset however often the accessors are called.
C8_BeforeFirstAct ==
    (Constructed /\ ~Acted) =>
        /\ _log_std = None /\ _num_samples = None /\ _distribution = None
        /\ op = "get_entropy" => ret = Scalar(0)
        /\ op = "distribution" => ret = None
        /\ op = "get_log_std" => ret = Raised("AttributeError")

C8_Witness ==
    /\ Constructed /\ ~Acted
    /\ op = "get_entropy" /\ ret = Scalar(0)

\* C9: construction raises the configuration error exactly when the
\* reduction is not one of mean, sum, prod, none; with each of these four it
\* succeeds and act applies the reduction that was named.
C9_ConstructionFailsIffInvalid ==
    constructed # "pending" =>
        /\ constructed = "ValueError" <=> ctor.reduction \notin ValidReductions
        /\ ctor.reduction \in ValidReductions =>
              /\ Constructed
              /\ _reduction = reduction_fn(ctor.reduction)
              /\ (Returns /\ ctor.reduction # "none") =>
                    \A e \in Elements(ret.log_prob) :
                        e.f = "torch." \o ctor.reduction

\* C10 as claimed: the three transient fields are all unset or all written
\* by one act invocation, which after an act call that returns is that call.
C10_AllOrNothing ==
    Constructed =>
        \/ _log_std = None /\ _num_samples = None /\ _distribution = None
        \/ /\ _log_std # None /\ _num_samples # None /\ _distribution # None
           /\ age.log_std = age.num_samples
           /\ age.num_samples = age.distribution
           /\ Returns => (age.distribution = 1 /\ _distribution = BuiltGaussian)

\* the state part of C10 as amended (below)
C10_Fields ==
    Constructed =>
        /\ age.log_std = age.num_samples /\ age.log_std \in {0, 1}
        /\ _log_std = None <=> age.log_std = 0
        /\ _num_samples = None <=> age.num_samples = 0
        /\ _distribution = None <=> age.distribution = 0
        /\ age.distribution # 0 => age.log_std = 1
        /\ age.distribution = 1 =>
              /\ _distribution.scale = torch_exp(Expand(_log_std, _distribution.loc.shape))
              /\ _distribution.loc.shape[1] = _num_samples.value
        /\ (op = "act" /\ last_act.outcome = "Normal raised") =>
              /\ age.distribution \in {0, 2}
              /\ _num_samples = PyInt(N)
              /\ ret = Raised("Normal")
        /\ Returns =>
              /\ age = [log_std |-> 1, num_samples |-> 1, distribution |-> 1]
              /\ _distribution = BuiltGaussian
              /\ _num_samples = PyInt(N)
              /\ last_act.out.log_std.shape \in {<<N, D>>, <<D>>} =>
                    entropy_of(_distribution).shape = <<N, D>>

\* C10 as amended: _log_std and _num_samples are both unset or both written
\* by the latest act invocation whose compute returned; _distribution is
\* unset, built by that invocation, or, when that invocation raised in
\* building it, the one an earlier invocation built.  After an act call that
\* returns, all three are that call's: the Gaussian of its mean and clamped
\* log-std, its batch size, and an entropy of shape [N, D].  An act call that
\* raises in compute changes none of the three.
C10_TransientState ==
    /\ []C10_Fields
    /\ [][(op' = "act" /\ last_act'.outcome = "compute raised")
              => UNCHANGED <<transient, age>>]_vars

C10_Witness ==
    /\ Constructed /\ op = "act" /\ last_act.outcome = "Normal raised"
    /\ age.distribution = 2
    /\ _distribution.loc.shape[1] # _num_samples.value

====
